---- MODULE Spec2Model ----
(***************************************************************************)
(* Model of run() in go/tools/builders/protoc.go: the protoc wrapper that  *)
(* runs the compiler into a scratch directory, builds a registry of the    *)
(* expected outputs, walks the scratch tree matching generated files to    *)
(* expected paths, and then emits copies / placeholders or an error.       *)
(*                                                                         *)
(* A relative path is a pair <<dir, base>>: one directory level and a      *)
(* basename.  Basename 0 stands for a name without the ".go" suffix.        *)
(* *genFileInfo pointers are indices into the heap objs; 0 is nil.          *)
(***************************************************************************)
EXTENDS Integers, Sequences, FiniteSets, TLC

\* ---- bounds ----
MaxDir == 3
MaxBase == 2
MaxExpected == 2
MaxScratch == 4
MaxPre == 1
MaxJunkDir == 1

Dirs == 1..MaxDir
GoBases == 1..MaxBase
GoPaths == Dirs \X GoBases
\* files without the ".go" suffix appear in the first MaxJunkDir directories
JunkPaths == {<<d, 0>> : d \in 1..MaxJunkDir}
ScratchPaths == GoPaths \cup JunkPaths

\* the -expected flag values: an ordered list, duplicates possible
ExpectedLists == UNION {[1..n -> GoPaths] : n \in 0..MaxExpected}
\* the regular files protoc may leave under tmpDir
ScratchTrees == {s \in SUBSET ScratchPaths : Cardinality(s) <= MaxScratch}
\* directories that may already exist under the output root
PreDirs == {1..n : n \in 0..MaxPre}

VARIABLES pc, expected, scratch, outDirs, tmpExists, i, objs, files, byBase,
          w, walkErr, todo, buf, written, result

vars == <<pc, expected, scratch, outDirs, tmpExists, i, objs, files, byBase,
          w, walkErr, todo, buf, written, result>>

\* ---- helpers ----
Base(path) == path[2]
HasSuffixGo(path) == path[2] \in GoBases
Put(f, k, v) == [x \in (DOMAIN f) \cup {k} |-> IF x = k THEN v ELSE f[x]]
EmptyMap == [x \in {} |-> 0]

OutLoc(rel) == [root |-> "out", rel |-> rel]
TmpLoc(rel) == [root |-> "tmp", rel |-> rel]

PlaceholderData == [placeholder |-> TRUE, src |-> <<0, 0>>]
FileData(rel) == [placeholder |-> FALSE, src |-> rel]

NoResult == [kind |-> "running", lines |-> <<>>, hint |-> FALSE]
NilResult == [kind |-> "nil", lines |-> <<>>, hint |-> FALSE]
ProtocError == [kind |-> "protoc", lines |-> <<>>, hint |-> FALSE]
FsError == [kind |-> "fs", lines |-> <<>>, hint |-> FALSE]
AmbiguityError(b) == [kind |-> "ambiguous", lines |-> b, hint |-> TRUE]

\* ---- registry construction ----
NewExpectedInfo(path) ==
  [path |-> OutLoc(path), base |-> Base(path), expected |-> TRUE,
   created |-> FALSE, from |-> 0, unique |-> TRUE, ambiguious |-> FALSE]

AfterBuild(n, exp) == IF n > Len(exp) THEN "walk" ELSE "build"

\* ---- the walk ----
EntryKey(e) ==
  IF e.kind = "root" THEN 0
  ELSE IF e.kind = "dir" THEN e.rel[1] * (MaxBase + 2)
  ELSE e.rel[1] * (MaxBase + 2) + e.rel[2] + 1

Entries(s) ==
  {[kind |-> "root", rel |-> <<0, 0>>]}
    \cup {[kind |-> "dir", rel |-> <<p[1], 0>>] : p \in s}
    \cup {[kind |-> "file", rel |-> p] : p \in s}

RECURSIVE SortEntries(_)
SortEntries(E) ==
  IF E = {} THEN <<>>
  ELSE LET m == CHOOSE e \in E : \A o \in E : EntryKey(e) <= EntryKey(o)
       IN <<m>> \o SortEntries(E \ {m})

WalkOrder(s) == SortEntries(Entries(s))

NewFoundInfo(rel) ==
  [path |-> TmpLoc(rel), base |-> Base(rel), expected |-> FALSE,
   created |-> TRUE, from |-> 0, unique |-> FALSE, ambiguious |-> FALSE]

\* os.Mkdir under the output root: nil, EEXIST, or another error
MkdirErrs(d, existing) == IF d \in existing THEN {"EEXIST"} ELSE {"nil", "EACCES"}
IsExist(err) == err = "EEXIST"
\* what the callback returns for a directory
DirReturn(err) == IF ~IsExist(err) THEN err ELSE "nil"

\* a variant of the exact-path branch that forgets to record the source
ExactMatch_NoFrom(o, found, id) ==
  [o EXCEPT ![found].created = TRUE]

\* exact-path match: o is the heap with info already allocated at id
ExactMatch(o, found, id) ==
  [o EXCEPT ![found].created = TRUE, ![found].from = id]

\* a variant of the fallback switch without the "already bound" case
Fallback_Rebind(o, copyTo, id) ==
  CASE copyTo = 0 -> o
    [] copyTo # 0 /\ ~o[copyTo].unique -> o
    [] OTHER ->
         [o EXCEPT ![copyTo].from = id, ![copyTo].created = TRUE,
                   ![id].expected = TRUE]

\* a variant of the fallback switch without the "not unique" case
Fallback_IgnoreUnique(o, copyTo, id) ==
  CASE copyTo = 0 -> o
    [] copyTo # 0 /\ o[copyTo].from # 0 ->
         [o EXCEPT ![copyTo].ambiguious = TRUE, ![id].ambiguious = TRUE]
    [] OTHER ->
         [o EXCEPT ![copyTo].from = id, ![copyTo].created = TRUE,
                   ![id].expected = TRUE]

\* basename fallback on copyTo := byBase[info.base]
Fallback(o, copyTo, id) ==
  CASE copyTo = 0 -> o
    [] copyTo # 0 /\ ~o[copyTo].unique -> o
    [] copyTo # 0 /\ o[copyTo].unique /\ o[copyTo].from # 0 ->
         [o EXCEPT ![copyTo].ambiguious = TRUE, ![id].ambiguious = TRUE]
    [] OTHER ->
         [o EXCEPT ![copyTo].from = id, ![copyTo].created = TRUE,
                   ![id].expected = TRUE]

\* the part of the callback that handles a ".go" file at relative path rel
MatchFile(o, fs, bb, rel) ==
  LET id == Len(o) + 1
      o1 == Append(o, NewFoundInfo(rel))
  IN IF rel \in DOMAIN fs
       THEN [objs |-> ExactMatch(o1, fs[rel], id), files |-> fs]
       ELSE [objs |-> Fallback(o1, IF Base(rel) \in DOMAIN bb THEN bb[Base(rel)] ELSE 0, id),
             files |-> Put(fs, rel, id)]

\* ---- emission ----
\* ioutil.ReadFile succeeds on a file that is still in the scratch directory
CanRead(loc, tmpOk, s) == loc.root = "tmp" /\ tmpOk /\ loc.rel \in s
ReadFile(loc) == FileData(loc.rel)

\* a variant of the switch whose first case writes no placeholder
EmitRecord_NoPlaceholder(f, o, b, wr, wok, tmpOk, s) ==
  CASE f.expected /\ ~f.created ->
         [buf |-> b, written |-> wr, err |-> ~wok]
    [] f.expected /\ f.created /\ f.ambiguious ->
         [buf |-> Append(b, f.path), written |-> wr, err |-> FALSE]
    [] ~(f.expected /\ ~f.created) /\ ~(f.expected /\ f.ambiguious) /\ f.from # 0 ->
         IF wok /\ CanRead(o[f.from].path, tmpOk, s)
           THEN [buf |-> b, written |-> Put(wr, f.path, ReadFile(o[f.from].path)), err |-> FALSE]
           ELSE [buf |-> b, written |-> wr, err |-> TRUE]
    [] OTHER -> [buf |-> b, written |-> wr, err |-> FALSE]

\* a variant of the switch whose last case copies an unexpected output
EmitRecord_CopyUnexpected(f, o, b, wr, wok, tmpOk, s) ==
  CASE f.expected /\ ~f.created ->
         IF wok THEN [buf |-> b, written |-> Put(wr, f.path, PlaceholderData), err |-> FALSE]
         ELSE [buf |-> b, written |-> wr, err |-> TRUE]
    [] f.expected /\ f.created /\ f.ambiguious ->
         [buf |-> Append(b, f.path), written |-> wr, err |-> FALSE]
    [] ~(f.expected /\ ~f.created) /\ ~(f.expected /\ f.ambiguious) /\ f.from # 0 ->
         IF wok /\ CanRead(o[f.from].path, tmpOk, s)
           THEN [buf |-> b, written |-> Put(wr, f.path, ReadFile(o[f.from].path)), err |-> FALSE]
           ELSE [buf |-> b, written |-> wr, err |-> TRUE]
    [] OTHER ->
         IF ~f.expected /\ wok /\ CanRead(f.path, tmpOk, s)
           THEN [buf |-> b, written |-> Put(wr, OutLoc(f.path.rel), ReadFile(f.path)), err |-> FALSE]
           ELSE [buf |-> b, written |-> wr, err |-> FALSE]

\* a variant of the switch whose second case does not test expected
EmitRecord_AnyAmbiguous(f, o, b, wr, wok, tmpOk, s) ==
  CASE f.expected /\ ~f.created ->
         IF wok THEN [buf |-> b, written |-> Put(wr, f.path, PlaceholderData), err |-> FALSE]
         ELSE [buf |-> b, written |-> wr, err |-> TRUE]
    [] ~(f.expected /\ ~f.created) /\ f.ambiguious ->
         [buf |-> Append(b, f.path), written |-> wr, err |-> FALSE]
    [] ~(f.expected /\ ~f.created) /\ ~f.ambiguious /\ f.from # 0 ->
         IF wok /\ CanRead(o[f.from].path, tmpOk, s)
           THEN [buf |-> b, written |-> Put(wr, f.path, ReadFile(o[f.from].path)), err |-> FALSE]
           ELSE [buf |-> b, written |-> wr, err |-> TRUE]
    [] OTHER -> [buf |-> b, written |-> wr, err |-> FALSE]

\* one iteration of the switch over a record f; wok: the read and the write succeed
EmitRecord(f, o, b, wr, wok, tmpOk, s) ==
  CASE f.expected /\ ~f.created ->
         IF wok THEN [buf |-> b, written |-> Put(wr, f.path, PlaceholderData), err |-> FALSE]
         ELSE [buf |-> b, written |-> wr, err |-> TRUE]
    [] f.expected /\ f.created /\ f.ambiguious ->
         [buf |-> Append(b, f.path), written |-> wr, err |-> FALSE]
    [] ~(f.expected /\ ~f.created) /\ ~(f.expected /\ f.ambiguious) /\ f.from # 0 ->
         IF wok /\ CanRead(o[f.from].path, tmpOk, s)
           THEN [buf |-> b, written |-> Put(wr, f.path, ReadFile(o[f.from].path)), err |-> FALSE]
           ELSE [buf |-> b, written |-> wr, err |-> TRUE]
    [] OTHER -> [buf |-> b, written |-> wr, err |-> FALSE]

\* ---- initial state: flags parsed, tmpDir created ----
Init ==
  /\ pc = "protoc"
  /\ expected \in ExpectedLists
  /\ scratch = {}
  /\ outDirs \in PreDirs
  /\ tmpExists = TRUE
  /\ i = 1
  /\ objs = <<>>
  /\ files = EmptyMap
  /\ byBase = EmptyMap
  /\ w = 1
  /\ walkErr = "nil"
  /\ todo = {}
  /\ buf = <<>>
  /\ written = EmptyMap
  /\ result = NoResult

\* cmd.Run(): the compiler fills the scratch directory, or exits non-zero
Protoc ==
  /\ pc = "protoc"
  /\ \E ok \in BOOLEAN :
       IF ok
         THEN /\ \E s \in ScratchTrees : scratch' = s
              /\ pc' = AfterBuild(1, expected)
              /\ UNCHANGED <<result, tmpExists>>
         ELSE /\ result' = ProtocError
              /\ pc' = "done"
              /\ tmpExists' = FALSE
              /\ UNCHANGED scratch
  /\ UNCHANGED <<expected, outDirs, i, objs, files, byBase, w, walkErr, todo, buf, written>>

\* a variant of the loop body that clears the flag of the later record only
Register_LaterOnly(o, fs, bb, path) ==
  LET id == Len(o) + 1
      info == NewExpectedInfo(path)
  IN IF info.base \in DOMAIN bb
       THEN [objs |-> Append(o, [info EXCEPT !.unique = FALSE]),
             files |-> Put(fs, path, id), byBase |-> bb]
       ELSE [objs |-> Append(o, info),
             files |-> Put(fs, path, id), byBase |-> Put(bb, info.base, id)]

\* the body of "for _, path := range expected" on the maps files and byBase
Register(o, fs, bb, path) ==
  LET id == Len(o) + 1
      info == NewExpectedInfo(path)
  IN IF info.base \in DOMAIN bb
       THEN [objs |-> [Append(o, [info EXCEPT !.unique = FALSE])
                         EXCEPT ![bb[info.base]].unique = FALSE],
             files |-> Put(fs, path, id), byBase |-> bb]
       ELSE [objs |-> Append(o, info),
             files |-> Put(fs, path, id), byBase |-> Put(bb, info.base, id)]

\* one iteration of "for _, path := range expected"
RegisterExpected ==
  /\ pc = "build"
  /\ i <= Len(expected)
  /\ LET r == Register(objs, files, byBase, expected[i])
     IN /\ objs' = r.objs
        /\ files' = r.files
        /\ byBase' = r.byBase
  /\ i' = i + 1
  /\ pc' = AfterBuild(i + 1, expected)
  /\ UNCHANGED <<expected, scratch, outDirs, tmpExists, w, walkErr, todo, buf, written, result>>

\* filepath.Walk is over: its return value is dropped, emission starts
WalkEnds(fs) ==
  /\ pc' = "emit"
  /\ todo' = DOMAIN fs

Advance(fs) ==
  IF w + 1 > Len(WalkOrder(scratch))
    THEN WalkEnds(fs) /\ w' = w + 1
    ELSE pc' = "walk" /\ w' = w + 1 /\ UNCHANGED todo

\* one call of the walk callback, on the next entry in lexical order
WalkFn ==
  /\ pc = "walk"
  /\ w <= Len(WalkOrder(scratch))
  /\ LET e == WalkOrder(scratch)[w]
     IN CASE e.kind = "root" ->
               /\ Advance(files)
               /\ UNCHANGED <<objs, files, outDirs, walkErr>>
          [] e.kind = "dir" ->
               \E err \in MkdirErrs(e.rel[1], outDirs) :
                 /\ outDirs' = IF err = "nil" THEN outDirs \cup {e.rel[1]} ELSE outDirs
                 /\ IF DirReturn(err) = "nil"
                      THEN Advance(files) /\ UNCHANGED walkErr
                      ELSE /\ walkErr' = DirReturn(err)
                           /\ WalkEnds(files)
                           /\ UNCHANGED w
                 /\ UNCHANGED <<objs, files>>
          [] e.kind = "file" /\ ~HasSuffixGo(e.rel) ->
               /\ Advance(files)
               /\ UNCHANGED <<objs, files, outDirs, walkErr>>
          [] OTHER ->
               LET m == MatchFile(objs, files, byBase, e.rel)
               IN /\ objs' = m.objs
                  /\ files' = m.files
                  /\ Advance(m.files)
                  /\ UNCHANGED <<outDirs, walkErr>>
  /\ UNCHANGED <<expected, scratch, tmpExists, i, byBase, buf, written, result>>

\* one iteration of "for _, f := range files": Go visits the keys in any order
Emit ==
  /\ pc = "emit"
  /\ \E k \in todo : \E wok \in BOOLEAN :
       LET r == EmitRecord(objs[files[k]], objs, buf, written, wok, tmpExists, scratch)
       IN /\ todo' = todo \ {k}
          /\ buf' = r.buf
          /\ written' = r.written
          /\ IF r.err
               THEN result' = FsError /\ pc' = "done" /\ tmpExists' = FALSE
               ELSE IF Len(r.buf) > 0
                 THEN result' = AmbiguityError(r.buf) /\ pc' = "done" /\ tmpExists' = FALSE
                 ELSE UNCHANGED <<result, pc, tmpExists>>
  /\ UNCHANGED <<expected, scratch, outDirs, i, objs, files, byBase, w, walkErr>>

\* a variant of the final return that leaves the scratch directory behind
ReturnNil_NoCleanup ==
  /\ pc = "emit"
  /\ todo = {}
  /\ result' = NilResult
  /\ pc' = "done"
  /\ UNCHANGED <<expected, scratch, outDirs, tmpExists, i, objs, files, byBase, w, walkErr, todo, buf, written>>

\* the loop is over: return nil, the deferred RemoveAll runs
ReturnNil ==
  /\ pc = "emit"
  /\ todo = {}
  /\ result' = NilResult
  /\ pc' = "done"
  /\ tmpExists' = FALSE
  /\ UNCHANGED <<expected, scratch, outDirs, i, objs, files, byBase, w, walkErr, todo, buf, written>>

Next == Protoc \/ RegisterExpected \/ WalkFn \/ Emit \/ ReturnNil

Spec == Init /\ [][Next]_vars

TypeOK ==
  /\ pc \in {"protoc", "build", "walk", "emit", "done"}
  /\ todo \subseteq DOMAIN files

\* ---- vocabulary of the properties ----
Declared == {expected[j] : j \in 1..Len(expected)}
Registered == pc \in {"walk", "emit", "done"}
Done == pc = "done"
Rec(p) == objs[files[p]]
Occurrences(p) == Cardinality({j \in 1..Len(expected) : expected[j] = p})
UniqueBase(p) == \A q \in Declared : q # p => Base(q) # Base(p)
Candidates(p) == {q \in scratch : HasSuffixGo(q) /\ Base(q) = Base(p)}
MarkedAmbiguous(p) == p \in DOMAIN files /\ Rec(p).ambiguious
Named(p) == \E j \in 1..Len(result.lines) : result.lines[j] = OutLoc(p)
WrittenAt(p) == OutLoc(p) \in DOMAIN written
\* no mkdir, read or write failed and the compiler exited zero
NoFsFailure == walkErr = "nil" /\ result.kind \in {"nil", "ambiguous"}

\* the emission loop run over the keys in ascending order, all writes succeeding
PathKey(p) == p[1] * (MaxBase + 2) + p[2] + 1
RECURSIVE SortedEmit(_, _, _)
SortedEmit(keys, b, wr) ==
  IF keys = {} THEN [result |-> NilResult, written |-> wr]
  ELSE LET k == CHOOSE x \in keys : \A y \in keys : PathKey(x) <= PathKey(y)
           r == EmitRecord(objs[files[k]], objs, b, wr, TRUE, TRUE, scratch)
       IN IF Len(r.buf) > 0
            THEN [result |-> AmbiguityError(r.buf), written |-> r.written]
            ELSE SortedEmit(keys \ {k}, r.buf, r.written)

\* C1: whenever the run fails with the ambiguity error, the message names
\* every declared expected path whose record was marked ambiguous.
C1_CollectAll ==
  result.kind = "ambiguous" =>
    \A p \in Declared : MarkedAmbiguous(p) => Named(p)

\* C2: at the end of a run without filesystem failure every declared
\* expected path is either written or named in the error, never both and
\* never neither.
C2_WrittenXorNamed ==
  (Done /\ NoFsFailure) =>
    \A p \in Declared : WrittenAt(p) # Named(p)

\* C3: when run returns nil every declared expected path has a file written
\* at it, the bytes of its resolved scratch file or the placeholder; and when
\* a declared path was marked ambiguous run never returns nil: it returns
\* the ambiguity error with the importpath hint, unless a filesystem error
\* ended the emission first.
C3_SuccessAllWritten ==
  /\ result.kind = "nil" =>
       \A p \in Declared :
         /\ WrittenAt(p)
         /\ written[OutLoc(p)] =
              IF Rec(p).from # 0 THEN FileData(objs[Rec(p).from].path.rel)
              ELSE PlaceholderData
  /\ (Done /\ \E p \in Declared : MarkedAmbiguous(p)) =>
       /\ result.kind \in {"ambiguous", "fs"}
       /\ result.kind = "ambiguous" => (result.hint /\ Len(result.lines) > 0)

C3_Witness ==
  /\ result.kind = "nil"
  /\ \E p \in Declared : WrittenAt(p) /\ written[OutLoc(p)] = PlaceholderData
  /\ \E p \in Declared : WrittenAt(p) /\ written[OutLoc(p)] # PlaceholderData

\* C4: a declared expected path that has a scratch .go file at exactly that
\* path is resolved to that file and is never marked ambiguous, whatever
\* other scratch files share its basename.
C4_ExactPrecedence ==
  (pc \in {"emit", "done"} /\ walkErr = "nil" /\ result.kind # "protoc") =>
    \A p \in Declared \cap scratch :
      /\ ~Rec(p).ambiguious
      /\ Rec(p).from # 0 /\ objs[Rec(p).from].path = TmpLoc(p)

\* C5: the from field of a record is write-once: once set, no step of the
\* walk changes it.
C5_FromWriteOnce ==
  [][\A id \in 1..Len(objs) :
       objs[id].from # 0 => objs'[id].from = objs[id].from]_vars

\* C5 (amended): a from set by an exact-path match never changes; a from set
\* by basename fallback changes only when a later exact-path match replaces
\* it with the file at the record's own path.
C5_ExactFromWriteOnce ==
  [][\A id \in 1..Len(objs) :
       objs[id].from # 0 =>
         \/ objs'[id].from = objs[id].from
         \/ /\ objs[objs[id].from].path.rel # objs[id].path.rel
            /\ objs'[objs'[id].from].path.rel = objs[id].path.rel]_vars

C5_Witness ==
  \E p \in Declared :
    /\ p \in DOMAIN files
    /\ Rec(p).from # 0 /\ objs[Rec(p).from].path = TmpLoc(p)
    /\ \E q \in DOMAIN files : q # p /\ Base(q) = Base(p) /\ objs[files[q]].expected
                                 /\ objs[files[q]].path = TmpLoc(q)

\* C6: a declared path listed once, with a basename no other declared path
\* has, no scratch file at that path and two or more scratch .go files of
\* that basename makes the run fail with an error naming it, and no file is
\* written at it.
C6_AmbiguityNamed ==
  (Done /\ NoFsFailure) =>
    \A p \in Declared :
      (UniqueBase(p) /\ Occurrences(p) = 1 /\ p \notin scratch
         /\ Cardinality(Candidates(p)) >= 2) =>
        (result.kind = "ambiguous" /\ Named(p) /\ ~WrittenAt(p))

\* C7: the outcome of a run without filesystem failure is a function of the
\* expected list and the scratch tree: it equals the outcome of the run that
\* visits the registry in ascending path order.
C7_Deterministic ==
  (Done /\ NoFsFailure) =>
    LET ref == SortedEmit(DOMAIN files, <<>>, EmptyMap)
    IN written = ref.written /\ result = ref.result

\* C8: when creating a directory under the output root fails for a reason
\* other than "already exists", run does not return nil.
C8_MkdirFatal ==
  (Done /\ walkErr # "nil") => result.kind # "nil"

\* C9: when no two distinct declared paths share a basename and the scratch
\* tree holds exactly one .go file per declared path, at that path, and
\* nothing else, a run without filesystem failure returns nil and every
\* declared path holds the bytes of the scratch file at the same path.
C9_ExactCopies ==
  (Done /\ walkErr = "nil" /\ result.kind \notin {"fs", "protoc"}
     /\ scratch = Declared /\ \A p \in Declared : UniqueBase(p)) =>
    /\ result.kind = "nil"
    /\ \A p \in Declared : WrittenAt(p) /\ written[OutLoc(p)] = FileData(p)

C9_Witness ==
  /\ Done /\ walkErr = "nil" /\ result.kind = "nil"
  /\ scratch = Declared /\ Cardinality(Declared) = 2
  /\ \A p \in Declared : UniqueBase(p)
  /\ \A p \in Declared : WrittenAt(p) /\ written[OutLoc(p)] = FileData(p)

\* C10: a declared path listed once, with a basename no other declared path
\* has, no scratch file at that path and exactly one scratch .go file of that
\* basename receives that file's bytes and is not named in the error.
C10_FallbackBinds ==
  (Done /\ NoFsFailure) =>
    \A p \in Declared :
      (UniqueBase(p) /\ Occurrences(p) = 1 /\ p \notin scratch
         /\ Cardinality(Candidates(p)) = 1) =>
        /\ ~Named(p)
        /\ WrittenAt(p)
        /\ \A q \in Candidates(p) : written[OutLoc(p)] = FileData(q)

\* C11: an expected path for which the scratch tree holds no file at that
\* path and to which no file was bound by basename ends up holding the
\* placeholder, and the omission does not make the run fail: run returns nil
\* unless some expected path is ambiguous.
C11_OmittedPlaceholder ==
  (Done /\ NoFsFailure) =>
    \A p \in Declared :
      (p \notin scratch /\ Rec(p).from = 0) =>
        /\ WrittenAt(p)
        /\ written[OutLoc(p)] = PlaceholderData
        /\ (\A q \in Declared : ~MarkedAmbiguous(q)) => result.kind = "nil"

\* ---- a second specification: expected lists one entry longer ----
MaxExpectedWide == 3
ExpectedListsWide == [1..MaxExpectedWide -> GoPaths]

InitWide ==
  /\ pc = "protoc"
  /\ expected \in ExpectedListsWide
  /\ scratch = {}
  /\ outDirs \in PreDirs
  /\ tmpExists = TRUE
  /\ i = 1
  /\ objs = <<>>
  /\ files = EmptyMap
  /\ byBase = EmptyMap
  /\ w = 1
  /\ walkErr = "nil"
  /\ todo = {}
  /\ buf = <<>>
  /\ written = EmptyMap
  /\ result = NoResult

SpecWide == InitWide /\ [][Next]_vars

SharesBase(p) == \E q \in Declared : q # p /\ Base(q) = Base(p)

\* C12: an expected path that shares its basename with another, different
\* expected path is never bound by basename and never ambiguous; a scratch
\* file of that basename elsewhere is dropped; the path ends up holding the
\* bytes of the scratch file at that exact path if there is one and the
\* placeholder otherwise, and this does not make the run fail: run returns
\* nil unless some expected path is ambiguous.
C12_SharedNoFallback ==
  (Done /\ NoFsFailure) =>
    \A p \in Declared :
      SharesBase(p) =>
        /\ ~Rec(p).ambiguious
        /\ ~Named(p)
        /\ Rec(p).from # 0 => objs[Rec(p).from].path = TmpLoc(p)
        /\ \A k \in (DOMAIN files) \ Declared :
             Base(k) = Base(p) =>
               (~objs[files[k]].expected /\ ~objs[files[k]].ambiguious)
        /\ WrittenAt(p)
        /\ written[OutLoc(p)] =
             IF p \in scratch THEN FileData(p) ELSE PlaceholderData
        /\ (\A q \in Declared : ~MarkedAmbiguous(q)) => result.kind = "nil"

\* ---- the registry as a function of the inputs ----
EmptyRegistry == [objs |-> <<>>, files |-> EmptyMap, byBase |-> EmptyMap]

\* the whole "for _, path := range expected" loop
RECURSIVE BuildAll(_, _, _)
BuildAll(exp, n, reg) ==
  IF n > Len(exp) THEN reg
  ELSE BuildAll(exp, n + 1, Register(reg.objs, reg.files, reg.byBase, exp[n]))

\* the ".go" files among a sequence of walk entries, in the same order
RECURSIVE GoFiles(_)
GoFiles(entries) ==
  IF entries = <<>> THEN <<>>
  ELSE (IF Head(entries).kind = "file" /\ HasSuffixGo(Head(entries).rel)
          THEN <<Head(entries).rel>> ELSE <<>>) \o GoFiles(Tail(entries))

\* the callback applied to the ".go" files rels, in that order
RECURSIVE WalkSeq(_, _)
WalkSeq(rels, reg) ==
  IF rels = <<>> THEN reg
  ELSE LET m == MatchFile(reg.objs, reg.files, reg.byBase, Head(rels))
       IN WalkSeq(Tail(rels), [objs |-> m.objs, files |-> m.files, byBase |-> reg.byBase])

\* the registry a run without mkdir failure builds from list exp and tree s
RegistryOf(exp, s) ==
  WalkSeq(GoFiles(WalkOrder(s)), BuildAll(exp, 1, EmptyRegistry))

\* a record as emission sees it: the pointer from replaced by the path it points to
View(o, id) ==
  [path |-> o[id].path, base |-> o[id].base, expected |-> o[id].expected,
   created |-> o[id].created, unique |-> o[id].unique,
   ambiguious |-> o[id].ambiguious,
   from |-> IF o[id].from = 0 THEN [root |-> "nil", rel |-> <<0, 0>>]
            ELSE o[o[id].from].path]

Walked == pc \in {"emit", "done"} /\ walkErr = "nil" /\ result.kind # "protoc"

\* scratch .go files at no expected path and with no expected path's basename
Inert == {q \in scratch : HasSuffixGo(q) /\ q \notin Declared
                            /\ \A p \in Declared : Base(p) # Base(q)}

\* C13: a scratch .go file that is at no expected path and has no expected
\* path's basename is never written anywhere, never named in the error, its
\* registry record is a no-op for emission, and every other record of the
\* registry is what the walk of the tree without such files produces.
C13_UnexpectedInert ==
  Walked =>
    LET ref == RegistryOf(expected, scratch \ Inert)
    IN /\ (DOMAIN files) \ Inert = DOMAIN ref.files
       /\ \A k \in DOMAIN ref.files :
            View(objs, files[k]) = View(ref.objs, ref.files[k])
       /\ \A q \in Inert :
            /\ q \in DOMAIN files
            /\ EmitRecord(objs[files[q]], objs, buf, written, TRUE, tmpExists, scratch)
                 = [buf |-> buf, written |-> written, err |-> FALSE]
            /\ \A loc \in DOMAIN written : loc.rel # q /\ written[loc].src # q
            /\ \A j \in 1..Len(result.lines) : result.lines[j].rel # q

C13_Witness ==
  /\ Done /\ NoFsFailure /\ result.kind = "nil"
  /\ Inert # {}
  /\ \E p \in Declared : WrittenAt(p) /\ written[OutLoc(p)] # PlaceholderData

\* the expected list with every repeated entry dropped (first occurrence kept)
RECURSIVE Dedup(_)
Dedup(exp) ==
  IF exp = <<>> THEN <<>>
  ELSE LET front == Dedup(SubSeq(exp, 1, Len(exp) - 1))
           last == exp[Len(exp)]
       IN IF \E j \in 1..Len(front) : front[j] = last THEN front
          ELSE Append(front, last)

\* C14: listing an expected path more than once changes nothing: after the
\* walk every expected record (unique flag, created, ambiguous, resolved
\* source) is what the same list without the repeated entries produces.
C14_DuplicatesHarmless ==
  Walked =>
    LET ref == RegistryOf(Dedup(expected), scratch)
    IN \A p \in Declared :
         View(objs, files[p]) = View(ref.objs, ref.files[p])

DistinctEntries == Cardinality(Declared) = Len(expected)

\* C15: once the registry is built from distinct expected paths, a record's
\* unique flag is false exactly when another expected path has its basename,
\* whatever the number of paths sharing it and whichever was inserted first;
\* and no step of the walk or of emission changes a unique flag.
C15_UniqueFlags ==
  /\ []((Registered /\ result.kind # "protoc" /\ DistinctEntries) =>
          \A p \in Declared : Rec(p).unique = UniqueBase(p))
  /\ [][(pc \in {"walk", "emit"}) =>
          \A id \in 1..Len(objs) : objs'[id].unique = objs[id].unique]_vars

C15_Witness ==
  /\ Done /\ NoFsFailure /\ DistinctEntries
  /\ Cardinality(Declared) = 3
  /\ \A p \in Declared : \A q \in Declared : Base(p) = Base(q)
  /\ \A p \in Declared : ~Rec(p).unique
  /\ scratch # {}

\* C16: the scratch directory exists until run returns and is removed on
\* every return after its creation (compiler failure, ambiguity error,
\* read or write failure, success); in particular it is still there for
\* every read of the emission pass.
C16_ScratchRemovedOnExit ==
  /\ Done => ~tmpExists
  /\ pc \in {"protoc", "build", "walk", "emit"} => tmpExists

C16_Witness ==
  /\ Done /\ ~tmpExists
  /\ result.kind = "ambiguous"
  /\ \E loc \in DOMAIN written : ~written[loc].placeholder

\* two different expected paths with one basename, and a scratch .go file of
\* that basename at neither of them
SharedWithStray(p, q) ==
  /\ p \in Declared /\ q \in Declared /\ p # q /\ Base(p) = Base(q)
  /\ \E s \in scratch : HasSuffixGo(s) /\ Base(s) = Base(p) /\ s # p /\ s # q

\* C17: when two expected paths share a basename and a scratch file matches
\* it by basename only, the one of the two that has no exact-path file is
\* not placeholder-filled and makes the run report failure; neither is
\* resolved via fallback.
C17_SharedStrayFails ==
  (Done /\ NoFsFailure) =>
    \A p \in Declared : \A q \in Declared :
      (SharedWithStray(p, q) /\ p \notin scratch) =>
        /\ result.kind # "nil"
        /\ ~(WrittenAt(p) /\ written[OutLoc(p)] = PlaceholderData)
        /\ Rec(p).from = 0

\* C17 (amended): in that situation neither record is resolved via fallback
\* or reported ambiguous; run returns nil unless some expected path is
\* ambiguous, and when it returns nil each of the two holds the bytes of its
\* exact-path scratch file if there is one and the placeholder otherwise.
C17_SharedStrayPlaceholder ==
  (Done /\ NoFsFailure) =>
    \A p \in Declared : \A q \in Declared :
      SharedWithStray(p, q) =>
        /\ ~Rec(p).ambiguious /\ ~Named(p)
        /\ Rec(p).from # 0 => objs[Rec(p).from].path = TmpLoc(p)
        /\ (\A d \in Declared : ~MarkedAmbiguous(d)) => result.kind = "nil"
        /\ result.kind = "nil" =>
             /\ WrittenAt(p)
             /\ written[OutLoc(p)] =
                  IF p \in scratch THEN FileData(p) ELSE PlaceholderData

C17_Witness ==
  /\ Done /\ NoFsFailure /\ result.kind = "nil"
  /\ \E p \in Declared : \E q \in Declared :
       /\ SharedWithStray(p, q)
       /\ p \in scratch /\ q \notin scratch
       /\ written[OutLoc(p)] = FileData(p)
       /\ written[OutLoc(q)] = PlaceholderData

\* every order in which the elements of a finite set can be discovered
Perms(S) ==
  {f \in [1..Cardinality(S) -> S] : \A a \in DOMAIN f : \A b \in DOMAIN f : f[a] = f[b] => a = b}

\* C18: the matching step does not depend on the discovery order: whatever
\* the order in which the scratch .go files are handed to the callback, each
\* expected record ends with the resolved source, created flag and ambiguous
\* flag that the actual (lexical) walk gives it.
C18_OrderIndependent ==
  (Walked /\ pc = "emit") =>
    LET G == {q \in scratch : HasSuffixGo(q)}
        built == BuildAll(expected, 1, EmptyRegistry)
    IN \A perm \in Perms(G) :
         LET reg == WalkSeq(perm, built)
         IN \A p \in Declared :
              View(reg.objs, reg.files[p]) = View(objs, files[p])

\* registry keys that come from the walk, not from the expected list
Discovered == (DOMAIN files) \ Declared

\* C19: every file written, placeholder or copy, is at a declared expected
\* path and every path named in the ambiguity error is a declared expected
\* path; a record created for a discovered scratch file, also one marked
\* expected as a fallback source or ambiguous as a second candidate, is a
\* no-op for emission.
C19_OnlyDeclaredEmitted ==
  /\ \A loc \in DOMAIN written : loc.root = "out" /\ loc.rel \in Declared
  /\ \A j \in 1..Len(result.lines) :
       result.lines[j].root = "out" /\ result.lines[j].rel \in Declared
  /\ \A j \in 1..Len(buf) : buf[j].root = "out" /\ buf[j].rel \in Declared
  /\ pc \in {"walk", "emit", "done"} =>
       \A k \in Discovered :
         EmitRecord(objs[files[k]], objs, buf, written, TRUE, TRUE, scratch)
           = [buf |-> buf, written |-> written, err |-> FALSE]

C19_Witness ==
  /\ Done /\ result.kind = "ambiguous"
  /\ \E k \in Discovered : objs[files[k]].expected /\ k \notin todo
  /\ \E k \in Discovered : objs[files[k]].ambiguious /\ k \notin todo
  /\ written # EmptyMap
====
